---- MODULE Spec2Model ----
(***************************************************************************)
(* Model of the request/response orchestration of the AI code assistant:   *)
(* src/src/App.tsx (component state, debounce timer, suggestion fetching,  *)
(* the four AI actions, error banners) and src/src/services/aiService.ts   *)
(* (request construction and error re-classification).                     *)
(*                                                                         *)
(* JavaScript strings are TLA+ strings; null / undefined of a nullable    *)
(* string is the reserved value Null.  One action of the model is one     *)
(* run-to-completion step of the UI event loop: an event handler up to    *)
(* its first await, or the continuation of a handler after its await.     *)
(***************************************************************************)
EXTENDS Integers, Sequences, FiniteSets, TLC

VARIABLES
    code,           \* useState: mirrored editor content
    language,       \* useState: selected language
    suggestions,    \* useState: list of {completion, confidence}
    error,          \* useState: string | null
    loading,        \* useState: suggestion spinner
    aiResponse,     \* useState: string | null
    aiLoading,      \* useState: AI action spinner
    aiAction,       \* useState: 'complete' | 'document' | 'explain' | 'remove' | null
    isQuotaError,   \* useState
    isConfigError,  \* useState
    monacoReady,    \* window.monaco is defined and the editor model exists
    buffer,         \* text of the Monaco model
    selection,      \* selection of the first editor, offsets into buffer
    timers,         \* pending setTimeout callbacks of handleEditorChange, oldest first
    sugReqs,        \* POST /api/complete calls in flight, oldest first
    aiReqs,         \* POST /api/ai/completion calls in flight
    lastOutcome,    \* history: how the most recently resolved suggestion fetch ended
    lastSugError,   \* history: the failure it ended with, if it failed
    lastReply,      \* history: suggestions carried by that reply
    lastOvertaken,  \* history: a newer request's reply had been applied before it
    lastAiError,    \* history: the failure that ended the current AI action, if any
    lastEdit,       \* history: the last change of the buffer, if it inserted the AI response
    lastAiReply,    \* history: the reply that ended the current AI action, if any
    aiCalls         \* history: calls to /api/ai/completion made for the latest trigger

vars == <<code, language, suggestions, error, loading, aiResponse, aiLoading,
          aiAction, isQuotaError, isConfigError, monacoReady, buffer, selection,
          timers, sugReqs, aiReqs, lastOutcome, lastSugError, lastReply, lastOvertaken,
          lastAiError, lastEdit, lastAiReply, aiCalls>>

reactState == <<code, language, suggestions, error, loading, aiResponse,
                aiLoading, aiAction, isQuotaError, isConfigError>>

(***************************************************************************)
(* Bounds of the model.                                                    *)
(***************************************************************************)
MaxPending == 2         \* pending timers plus suggestion requests in flight
MaxPendingBeside == 1   \* the same, in the specification of the AI actions
MaxBufferLen == 12      \* an insertion may grow the buffer up to this length
TicksPerDebounce == 2   \* clock resolution: ticks in one debounce delay

(***************************************************************************)
(* Program constants.                                                      *)
(***************************************************************************)
DebounceMs == 500       \* delay of the setTimeout in handleEditorChange

Null == "<null>"

InitialCode == "# Start typing your code here..."

Languages == {"python", "javascript", "java", "cpp"}

QuotaMessage ==
    "AI API quota exceeded or billing issue. The API key needs to be updated or billing issues need to be resolved."

ConfigMessage ==
    "AI configuration error on the server. The administrator needs to fix proxy settings."

DefaultSuggestionError == "Failed to fetch code suggestions. Please try again."

ConnRefusedMessage ==
    "Cannot connect to the backend server. Please make sure it is running."

NoResponseMessage == "No response from server. Please check your connection."

(***************************************************************************)
(* JavaScript string helpers.                                              *)
(***************************************************************************)
\* truthiness of a string | null | undefined
Truthy(s) == s # Null /\ s # ""

\* String.prototype.includes, case-sensitive
includes(s, sub) ==
    \E i \in 1..(Len(s) - Len(sub) + 1) : SubSeq(s, i, i + Len(sub) - 1) = sub

(***************************************************************************)
(* What the backend and the network can answer.  An axios failure is the   *)
(* record of the fields the code reads: error.code, error.response,        *)
(* error.response.data (an object, an empty body or JSON null),            *)
(* error.response.data.error, error.response.statusText, error.request     *)
(* and error.message.                                                      *)
(***************************************************************************)
HttpError(text, statusText, msg) ==
    [isAxios |-> TRUE, code |-> "ERR_BAD_RESPONSE", hasResponse |-> TRUE,
     dataKind |-> "object", dataError |-> text, statusText |-> statusText,
     hasRequest |-> TRUE, message |-> msg]

EmptyBodyError ==
    [isAxios |-> TRUE, code |-> "ERR_BAD_RESPONSE", hasResponse |-> TRUE,
     dataKind |-> "empty", dataError |-> Null, statusText |-> "Bad Gateway",
     hasRequest |-> TRUE, message |-> "Request failed with status code 502"]

NullBodyError ==
    [isAxios |-> TRUE, code |-> "ERR_BAD_RESPONSE", hasResponse |-> TRUE,
     dataKind |-> "null", dataError |-> Null, statusText |-> "Internal Server Error",
     hasRequest |-> TRUE, message |-> "Request failed with status code 500"]

TimeoutError ==
    [isAxios |-> TRUE, code |-> "ECONNABORTED", hasResponse |-> FALSE,
     dataKind |-> "null", dataError |-> Null, statusText |-> Null,
     hasRequest |-> TRUE, message |-> "timeout of 10000ms exceeded"]

ConnRefusedError ==
    [isAxios |-> TRUE, code |-> "ECONNREFUSED", hasResponse |-> FALSE,
     dataKind |-> "null", dataError |-> Null, statusText |-> Null,
     hasRequest |-> TRUE, message |-> "connect ECONNREFUSED 127.0.0.1:5002"]

SetupError ==
    [isAxios |-> TRUE, code |-> Null, hasResponse |-> FALSE,
     dataKind |-> "null", dataError |-> Null, statusText |-> Null,
     hasRequest |-> FALSE, message |-> ""]

\* no failure recorded
NoError ==
    [isAxios |-> FALSE, code |-> Null, hasResponse |-> FALSE,
     dataKind |-> "null", dataError |-> Null, statusText |-> Null,
     hasRequest |-> FALSE, message |-> Null]

StatusError(text) == HttpError(text, "Too Many Requests", "Request failed with status code 429")

QuotaError == StatusError("You exceeded your current quota, check billing")

ProxiesError == StatusError("proxies argument not supported")

\* failures of POST /api/ai/completion: one for each way its callers tell them apart
AiErrors == {QuotaError, ProxiesError, StatusError("Model overloaded"), TimeoutError}

\* failures of POST /api/complete
SuggestionErrors ==
    {QuotaError, ProxiesError, EmptyBodyError, NullBodyError, TimeoutError,
     ConnRefusedError, SetupError}

(***************************************************************************)
(* services/aiService.ts                                                   *)
(***************************************************************************)
\* the test of the first if in the catch of getCompletion
HasErrorData(err) == err.hasResponse /\ err.dataKind = "object"

MentionsQuota(text) ==
    includes(text, "quota") \/ includes(text, "billing") \/ includes(text, "API key")

\* getCompletion with the proxies test ahead of the quota test
getCompletionThrowsProxiesFirst(err) ==
    IF HasErrorData(err) /\ Truthy(err.dataError) /\ includes(err.dataError, "proxies")
    THEN "AI Configuration Error: Server proxy settings issue. Please contact administrator."
    ELSE IF HasErrorData(err) /\ Truthy(err.dataError) /\ MentionsQuota(err.dataError)
    THEN "AI API Key Error: " \o err.dataError
    ELSE IF HasErrorData(err) /\ Truthy(err.dataError)
    THEN err.dataError
    ELSE err.message

\* getCompletion, catch block: the message of the Error it throws for an axios failure
getCompletionThrows(err) ==
    IF HasErrorData(err) /\ Truthy(err.dataError) /\ MentionsQuota(err.dataError)
    THEN "AI API Key Error: " \o err.dataError
    ELSE IF HasErrorData(err) /\ Truthy(err.dataError) /\ includes(err.dataError, "proxies")
    THEN "AI Configuration Error: Server proxy settings issue. Please contact administrator."
    ELSE IF HasErrorData(err) /\ Truthy(err.dataError)
    THEN err.dataError
    ELSE err.message

\* temperatures are kept in tenths: 3 is 0.3
CompletionTemperature == 3
DocumentationTemperature == 5
ExplanationTemperature == 7

CompletionSystemPrompt(lang) ==
    "You are an expert " \o lang \o " programmer. \n"
    \o "    Provide code completion that is concise, efficient, and follows best practices.\n"
    \o "    Only return code without explanation."

DocumentationSystemPrompt(lang) ==
    "You are an expert at writing documentation. \n"
    \o "    Analyze the provided " \o lang \o " code and generate clear, comprehensive documentation\n"
    \o "    that explains what the code does, any parameters, return values, and important details."

ExplanationSystemPrompt(lang) ==
    "You are a programming teacher who explains code in simple terms.\n"
    \o "    Analyze the provided " \o lang \o " code and explain what it does in clear, concise language\n"
    \o "    that a junior developer would understand. Focus on the purpose and logic, not line-by-line details."

\* the request getCodeCompletion hands to getCompletion
getCodeCompletionRequest(text, lang) ==
    [prompt |-> text,
     system_prompt |-> CompletionSystemPrompt(lang),
     temperature |-> CompletionTemperature,
     language |-> lang,
     request_type |-> "completion"]

generateDocumentationRequest(text, lang) ==
    [prompt |-> "Generate documentation for the following " \o lang \o " code:\n\n" \o text,
     system_prompt |-> DocumentationSystemPrompt(lang),
     temperature |-> DocumentationTemperature,
     language |-> lang,
     request_type |-> "documentation"]

\* explainCode with the temperature and the kind of getCodeCompletion
explainCodeRequestAsCompletion(text, lang) ==
    [prompt |-> "Explain this " \o lang \o " code in simple terms:\n\n" \o text,
     system_prompt |-> ExplanationSystemPrompt(lang),
     temperature |-> CompletionTemperature,
     language |-> lang,
     request_type |-> "completion"]

explainCodeRequest(text, lang) ==
    [prompt |-> "Explain this " \o lang \o " code in simple terms:\n\n" \o text,
     system_prompt |-> ExplanationSystemPrompt(lang),
     temperature |-> ExplanationTemperature,
     language |-> lang,
     request_type |-> "explanation"]

\* the entry points adding the suffix whether or not a provider is named
WithProviderAlways(reply) ==
    reply.response \o "\n\n" \o " (via " \o reply.provider \o ")"

\* the string the three entry points return for a reply {response, provider?}
WithProvider(reply) ==
    IF Truthy(reply.provider)
    THEN reply.response \o "\n\n" \o " (via " \o reply.provider \o ")"
    ELSE reply.response

\* replies of POST /api/ai/completion with a 2xx status
AiReplies ==
    {[response |-> "", provider |-> Null],
     [response |-> "x", provider |-> "g"]}

(***************************************************************************)
(* App.tsx: derived values of a render                                     *)
(***************************************************************************)
\* the buttons without the two error flags in their disabled prop
TriggerDisabledIgnoresFlags == aiLoading \/ code = ""

\* the buttons without aiLoading in their disabled prop
TriggerDisabledIgnoresLoading == code = "" \/ isQuotaError \/ isConfigError

\* disabled prop of the Complete, Document, Explain and Clean buttons
TriggerDisabled == aiLoading \/ code = "" \/ isQuotaError \/ isConfigError

\* open prop of the Snackbar
SnackbarOpen == Truthy(error) /\ ~isQuotaError /\ ~isConfigError

\* the AI Response panel shows the response and its buttons
ResponseShown == ~aiLoading /\ Truthy(aiResponse)

AppendShown == ResponseShown /\ aiAction \in {"complete", "document"}

InsertShown == ResponseShown /\ aiAction \in {"complete", "document", "remove"}

(***************************************************************************)
(* App.tsx: the editor, as far as the handlers use it                      *)
(***************************************************************************)
NoSelection == [from |-> -1, to |-> -1]

Caret(pos) == [from |-> pos, to |-> pos]

\* editor.getValueInRange(range)
getValueInRange(text, range) == SubSeq(text, range.from + 1, range.to)

\* the text after pushEditOperations([], [{range, text: new}])
ReplaceRange(text, range, new) ==
    SubSeq(text, 1, range.from) \o new \o SubSeq(text, range.to + 1, Len(text))

\* the buffer was last changed by something else than an insertion
NoEdit == [via |-> "none", before |-> "", sel |-> NoSelection, text |-> ""]

\* no reply recorded
NoReply == [action |-> Null, response |-> Null, provider |-> Null]

\* offsets the user's selection is drawn from
SelOffsets(text) == {1, Len(text) - 1} \cap (0..Len(text))

\* values handed to onChange
EditValues == {"", "a", "ab"}

(***************************************************************************)
(* App.tsx: handleEditorChange and the timers it starts                    *)
(***************************************************************************)
\* the timers pending after handleEditorChange(value) started a new one. No
\* timer is ever cleared: the function handleEditorChange returns is dropped
\* by its caller. left is the time in ms until the timer is due; superseded
\* records that a later edit arrived while the timer was still running.
TimersAfterEdit(ts, value, lang) ==
    Append([k \in DOMAIN ts |->
               [ts[k] EXCEPT !.superseded = ts[k].superseded \/ ts[k].left > 0]],
           [value |-> value, language |-> lang, left |-> DebounceMs,
            superseded |-> FALSE])

EditorMount ==
    /\ ~monacoReady
    /\ monacoReady' = TRUE
    /\ buffer' = code
    /\ selection' = Caret(0)
    /\ UNCHANGED <<reactState, timers, sugReqs, aiReqs, lastOutcome, lastSugError, lastReply, lastOvertaken, lastAiError, lastEdit,
                   lastAiReply, aiCalls>>

handleEditorChange(value, maxPending) ==
    /\ monacoReady
    /\ value # buffer
    /\ buffer' = value
    /\ selection' = Caret(Len(value))
    /\ IF Truthy(value)
       THEN /\ Len(timers) + Len(sugReqs) < maxPending
            /\ code' = value
            /\ timers' = TimersAfterEdit(timers, value, language)
       ELSE UNCHANGED <<code, timers>>
    /\ lastEdit' = NoEdit
    /\ UNCHANGED <<language, suggestions, error, loading, aiResponse, aiLoading,
                   aiAction, isQuotaError, isConfigError, monacoReady, sugReqs,
                   aiReqs, lastOutcome, lastSugError, lastReply, lastOvertaken, lastAiError,
                   lastAiReply, aiCalls>>

\* the ms of one tick of the clock, rounded up
TickMs == (DebounceMs + TicksPerDebounce - 1) \div TicksPerDebounce

\* time passes, one tick; a timer that is due runs first
Tick ==
    /\ timers # <<>>
    /\ \A k \in DOMAIN timers : timers[k].left > 0
    /\ timers' = [k \in DOMAIN timers |->
                    [timers[k] EXCEPT !.left = IF @ > TickMs THEN @ - TickMs ELSE 0]]
    /\ UNCHANGED <<reactState, monacoReady, buffer, selection, sugReqs, aiReqs,
                   lastOutcome, lastSugError, lastReply, lastOvertaken, lastAiError, lastEdit,
                   lastAiReply, aiCalls>>

(***************************************************************************)
(* App.tsx: getSuggestions                                                 *)
(***************************************************************************)
\* replies of POST /api/complete with a 2xx status, for the code sent
SuggestionBodies(snippet) ==
    {[hasSuggestions |-> FALSE, suggestions |-> <<>>],
     [hasSuggestions |-> TRUE, suggestions |-> <<>>],
     [hasSuggestions |-> TRUE,
      suggestions |-> <<[completion |-> snippet \o "()", confidence |-> 90]>>]}

\* the catch block's errorMessage for an axios failure
SuggestionErrorMessage(err) ==
    IF ~err.isAxios THEN DefaultSuggestionError
    ELSE IF err.code = "ECONNREFUSED" THEN ConnRefusedMessage
    ELSE IF err.hasResponse
    THEN "Server error: " \o (IF Truthy(err.dataError) THEN err.dataError ELSE err.statusText)
    ELSE IF err.hasRequest THEN NoResponseMessage
    ELSE DefaultSuggestionError

\* error.response.data is null: reading .error of it throws inside the catch
CatchThrows(err) ==
    err.isAxios /\ err.code # "ECONNREFUSED" /\ err.hasResponse /\ err.dataKind = "null"

InvalidFormatError ==
    [isAxios |-> FALSE, code |-> Null, hasResponse |-> FALSE,
     dataKind |-> "null", dataError |-> Null, statusText |-> Null,
     hasRequest |-> FALSE, message |-> "Invalid response format from server"]

RemoveAt(seq, i) == SubSeq(seq, 1, i - 1) \o SubSeq(seq, i + 1, Len(seq))

\* the timer callback: getSuggestions(value) up to its await
getSuggestionsStart ==
    /\ timers # <<>>
    /\ timers[1].left = 0
    /\ loading' = TRUE
    /\ error' = Null
    /\ sugReqs' = Append(sugReqs, [code |-> timers[1].value,
                                   language |-> timers[1].language,
                                   superseded |-> timers[1].superseded,
                                   overtaken |-> FALSE])
    /\ timers' = Tail(timers)
    /\ UNCHANGED <<code, language, suggestions, aiResponse, aiLoading, aiAction,
                   isQuotaError, isConfigError, monacoReady, buffer, selection,
                   aiReqs, lastOutcome, lastSugError, lastReply, lastOvertaken, lastAiError, lastEdit,
                   lastAiReply, aiCalls>>

\* a reply applied only when no newer request's reply was applied before it
AppliedIfNewest(req, reply, shown) == IF req.overtaken THEN shown ELSE reply

\* the list shown after a reply that carries suggestions
AppliedSuggestions(req, reply, shown) == reply

\* getSuggestions' catch classifying the failure the way the AI handlers do
getSuggestionsCatchEscalates(i, err) ==
    /\ error' = SuggestionErrorMessage(err)
    /\ suggestions' = <<>>
    /\ lastOutcome' = "failed"
    /\ lastSugError' = err
    /\ isQuotaError' = (isQuotaError \/ (Truthy(err.dataError) /\ MentionsQuota(err.dataError)))
    /\ isConfigError' = (isConfigError \/ (Truthy(err.dataError) /\ includes(err.dataError, "proxies")))
    /\ loading' = FALSE
    /\ sugReqs' = RemoveAt(sugReqs, i)
    /\ lastReply' = <<>>
    /\ lastOvertaken' = sugReqs[i].overtaken
    /\ UNCHANGED <<code, language, aiResponse, aiLoading, aiAction, monacoReady,
                   buffer, selection, timers, aiReqs, lastAiError, lastEdit,
                   lastAiReply, aiCalls>>

\* the catch and finally blocks of getSuggestions
getSuggestionsCatch(i, err) ==
    /\ IF CatchThrows(err)
       THEN /\ UNCHANGED <<error, suggestions>>
            /\ lastOutcome' = "threw"
            /\ lastSugError' = err
       ELSE /\ error' = SuggestionErrorMessage(err)
            /\ suggestions' = <<>>
            /\ lastOutcome' = "failed"
            /\ lastSugError' = err
    /\ loading' = FALSE
    /\ sugReqs' = RemoveAt(sugReqs, i)
    /\ lastReply' = <<>>
    /\ lastOvertaken' = sugReqs[i].overtaken
    /\ UNCHANGED <<code, language, aiResponse, aiLoading, aiAction, isQuotaError,
                   isConfigError, monacoReady, buffer, selection, timers, aiReqs,
                   lastAiError, lastEdit,
                   lastAiReply, aiCalls>>

\* the call resolves with a 2xx reply
getSuggestionsResolved(i, body) ==
    /\ i \in DOMAIN sugReqs
    /\ body \in SuggestionBodies(sugReqs[i].code)
    /\ IF body.hasSuggestions
       THEN /\ suggestions' = AppliedSuggestions(sugReqs[i], body.suggestions, suggestions)
            /\ loading' = FALSE
            /\ sugReqs' = RemoveAt([k \in DOMAIN sugReqs |->
                                      IF k < i THEN [sugReqs[k] EXCEPT !.overtaken = TRUE]
                                               ELSE sugReqs[k]], i)
            /\ lastOutcome' = "ok"
            /\ lastSugError' = NoError
            /\ lastReply' = body.suggestions
            /\ lastOvertaken' = sugReqs[i].overtaken
            /\ UNCHANGED <<code, language, error, aiResponse, aiLoading, aiAction,
                           isQuotaError, isConfigError, monacoReady, buffer,
                           selection, timers, aiReqs, lastAiError, lastEdit,
                   lastAiReply, aiCalls>>
       ELSE getSuggestionsCatch(i, InvalidFormatError)

\* the call rejects
getSuggestionsRejected(i, err) ==
    /\ i \in DOMAIN sugReqs
    /\ getSuggestionsCatch(i, err)

(***************************************************************************)
(* App.tsx: the four AI actions                                            *)
(***************************************************************************)
ErrorPrefix(action) ==
    CASE action = "complete" -> "Failed to get code completion from AI: "
      [] action = "document" -> "Failed to generate documentation with AI: "
      [] action = "explain"  -> "Failed to explain code with AI: "
      [] action = "remove"   -> "Failed to process with AI: "

\* the catch blocks without their else-if branch
ErrorBranchNoConfig(message) ==
    IF Truthy(message) /\ includes(message, "AI API Key Error") THEN "quota"
    ELSE "generic"

\* the branch the catch blocks of the four handlers (handleAIError for Clean) take
ErrorBranch(message) ==
    IF Truthy(message) /\ includes(message, "AI API Key Error") THEN "quota"
    ELSE IF Truthy(message) /\ includes(message, "Configuration Error") THEN "config"
    ELSE "generic"

\* the catch blocks with no setError in their else branch
ErrorShownDropsGeneric(action, message) ==
    CASE ErrorBranch(message) = "quota"  -> QuotaMessage
      [] ErrorBranch(message) = "config" -> ConfigMessage
      [] OTHER -> Null

\* the text handed to setError
ErrorShown(action, message) ==
    CASE ErrorBranch(message) = "quota"  -> QuotaMessage
      [] ErrorBranch(message) = "config" -> ConfigMessage
      [] OTHER -> ErrorPrefix(action)
                  \o (IF Truthy(message) THEN message ELSE "Please try again later.")

\* the handlers without their setAiResponse(null)
BeginActionKeepsResponse(action) ==
    /\ aiLoading' = TRUE
    /\ aiAction' = action
    /\ UNCHANGED aiResponse
    /\ error' = Null
    /\ isQuotaError' = FALSE
    /\ isConfigError' = FALSE
    /\ lastAiError' = NoError
    /\ lastAiReply' = NoReply

\* the first six statements of each handler
BeginAction(action) ==
    /\ aiLoading' = TRUE
    /\ aiAction' = action
    /\ aiResponse' = Null
    /\ error' = Null
    /\ isQuotaError' = FALSE
    /\ isConfigError' = FALSE
    /\ lastAiError' = NoError
    /\ lastAiReply' = NoReply

SendAi(action, request) ==
    /\ aiReqs' = Append(aiReqs, [action |-> action, request |-> request])
    /\ aiCalls' = 1

handleCompleteCode ==
    /\ ~TriggerDisabled
    /\ BeginAction("complete")
    /\ SendAi("complete", getCodeCompletionRequest(code, language))
    /\ UNCHANGED <<code, language, suggestions, loading, monacoReady, buffer,
                   selection, timers, sugReqs, lastOutcome, lastSugError, lastReply, lastOvertaken,
                   lastEdit>>

handleDocumentCode ==
    /\ ~TriggerDisabled
    /\ BeginAction("document")
    /\ SendAi("document", generateDocumentationRequest(code, language))
    /\ UNCHANGED <<code, language, suggestions, loading, monacoReady, buffer,
                   selection, timers, sugReqs, lastOutcome, lastSugError, lastReply, lastOvertaken,
                   lastEdit>>

handleExplainCode ==
    /\ ~TriggerDisabled
    /\ BeginAction("explain")
    /\ SendAi("explain", explainCodeRequest(code, language))
    /\ UNCHANGED <<code, language, suggestions, loading, monacoReady, buffer,
                   selection, timers, sugReqs, lastOutcome, lastSugError, lastReply, lastOvertaken,
                   lastEdit>>

\* selectedText of handleCleanCode
CleanSelectedText ==
    IF selection # NoSelection THEN getValueInRange(buffer, selection) ELSE code

CleanPrompt(text) ==
    "Please help me remove unnecessary code while keeping the core functionality:\n\n"
    \o text

handleCleanCode ==
    /\ ~TriggerDisabled
    /\ IF monacoReady
       THEN /\ BeginAction("remove")
            /\ SendAi("remove", getCodeCompletionRequest(CleanPrompt(CleanSelectedText), language))
       ELSE \* no editor: the try block does nothing and finally ends the action
            /\ aiLoading' = FALSE
            /\ aiAction' = "remove"
            /\ aiResponse' = Null
            /\ error' = Null
            /\ isQuotaError' = FALSE
            /\ isConfigError' = FALSE
            /\ lastAiError' = NoError
            /\ lastAiReply' = NoReply
            /\ aiCalls' = 0
            /\ UNCHANGED aiReqs
    /\ UNCHANGED <<code, language, suggestions, loading, monacoReady, buffer,
                   selection, timers, sugReqs, lastOutcome, lastSugError, lastReply, lastOvertaken,
                   lastEdit>>

\* the awaited call resolves: setAiResponse, then finally
aiResolved(i, reply) ==
    /\ i \in DOMAIN aiReqs
    /\ aiResponse' = WithProvider(reply)
    /\ aiLoading' = FALSE
    /\ aiReqs' = RemoveAt(aiReqs, i)
    /\ lastAiReply' = [action |-> aiReqs[i].action, response |-> reply.response,
                       provider |-> reply.provider]
    /\ UNCHANGED <<code, language, suggestions, error, loading, aiAction,
                   isQuotaError, isConfigError, monacoReady, buffer, selection,
                   timers, sugReqs, lastOutcome, lastSugError, lastReply, lastOvertaken, lastAiError,
                   lastEdit, aiCalls>>

\* the catch blocks with two ifs in a row instead of if / else if
aiRejectedIndependentTests(i, err) ==
    /\ i \in DOMAIN aiReqs
    /\ LET message == getCompletionThrows(err)
           action == aiReqs[i].action
           keyError == Truthy(message) /\ includes(message, "AI API Key Error")
           configError == Truthy(message) /\ includes(message, "Configuration Error")
       IN  /\ error' = IF configError THEN ConfigMessage
                       ELSE IF keyError THEN QuotaMessage
                       ELSE ErrorShown(action, message)
           /\ isQuotaError' = (isQuotaError \/ keyError)
           /\ isConfigError' = (isConfigError \/ configError)
    /\ aiLoading' = FALSE
    /\ aiReqs' = RemoveAt(aiReqs, i)
    /\ lastAiError' = err
    /\ UNCHANGED <<code, language, suggestions, loading, aiResponse, aiAction,
                   monacoReady, buffer, selection, timers, sugReqs, lastOutcome,
                   lastSugError, lastReply, lastOvertaken, lastEdit, lastAiReply,
                   aiCalls>>

\* the handlers with setAiLoading(false) after the await instead of in finally
aiRejectedWithoutFinally(i, err) ==
    /\ i \in DOMAIN aiReqs
    /\ LET message == getCompletionThrows(err)
           action == aiReqs[i].action
       IN  /\ error' = ErrorShown(action, message)
           /\ isQuotaError' = (isQuotaError \/ ErrorBranch(message) = "quota")
           /\ isConfigError' = (isConfigError \/ ErrorBranch(message) = "config")
    /\ UNCHANGED aiLoading
    /\ aiReqs' = RemoveAt(aiReqs, i)
    /\ lastAiError' = err
    /\ UNCHANGED <<code, language, suggestions, loading, aiResponse, aiAction,
                   monacoReady, buffer, selection, timers, sugReqs, lastOutcome, lastSugError,
                   lastReply, lastOvertaken, lastEdit, lastAiReply, aiCalls>>

\* the awaited call rejects: getCompletion rethrows, the handler's catch, then finally
aiRejected(i, err) ==
    /\ i \in DOMAIN aiReqs
    /\ LET message == getCompletionThrows(err)
           action == aiReqs[i].action
       IN  /\ error' = ErrorShown(action, message)
           /\ isQuotaError' = (isQuotaError \/ ErrorBranch(message) = "quota")
           /\ isConfigError' = (isConfigError \/ ErrorBranch(message) = "config")
    /\ aiLoading' = FALSE
    /\ aiReqs' = RemoveAt(aiReqs, i)
    /\ lastAiError' = err
    /\ UNCHANGED <<code, language, suggestions, loading, aiResponse, aiAction,
                   monacoReady, buffer, selection, timers, sugReqs, lastOutcome, lastSugError,
                   lastReply, lastOvertaken, lastEdit, lastAiReply, aiCalls>>

(***************************************************************************)
(* App.tsx: inserting text, the language menu, the Snackbar                *)
(***************************************************************************)
\* <Editor value={code} onChange={handleEditorChange}>, the two props the
\* handlers below depend on. onChange: every change of the model's content,
\* a pushEditOperations of a handler included, calls handleEditorChange with
\* the new text of the buffer, which for a truthy text calls setCode and
\* starts a timer. value: when the render after a handler has another code
\* than the render before and the buffer differs from it, the editor's text
\* is replaced by code, and onChange is not called for that replacement.
\*
\* the buffer after the render that follows a handler: shown is the buffer the
\* handler left, codeBefore and codeAfter the code state around it
ValueWrittenBack(shown, codeBefore, codeAfter) ==
    IF codeAfter # codeBefore /\ codeAfter # shown THEN codeAfter ELSE shown

\* the timers after onChange(value) ran handleEditorChange
TimersAfterChange(ts, value, lang) ==
    IF Truthy(value) THEN TimersAfterEdit(ts, value, lang) ELSE ts

\* the onClick of a suggestion card: with a model, the whole buffer becomes
\* code + completion; onChange then sets code to that text and starts a timer
handleSuggestionClick(k, maxPending) ==
    /\ k \in DOMAIN suggestions
    /\ IF monacoReady
       THEN LET text == code \o suggestions[k].completion
            IN  /\ Len(text) <= MaxBufferLen \/ Len(text) <= Len(buffer)
                /\ Len(timers) + Len(sugReqs) < maxPending
                /\ buffer' = ReplaceRange(buffer, [from |-> 0, to |-> Len(buffer)], text)
                /\ selection' = Caret(Len(text))
                /\ code' = IF Truthy(text) THEN text ELSE code
                /\ timers' = TimersAfterChange(timers, text, language)
       ELSE UNCHANGED <<buffer, selection, code, timers>>
    /\ lastEdit' = NoEdit
    /\ UNCHANGED <<language, suggestions, error, loading, aiResponse, aiLoading,
                   aiAction, isQuotaError, isConfigError, monacoReady, sugReqs, aiReqs,
                   lastOutcome, lastSugError, lastReply, lastOvertaken, lastAiError,
                   lastAiReply, aiCalls>>

\* the text of the buffer right after handleInsertAtCursor's pushEditOperations
InsertedAtCursor ==
    IF selection # NoSelection
    THEN ReplaceRange(buffer, selection, aiResponse)
    ELSE ReplaceRange(buffer, [from |-> 0, to |-> Len(buffer)], aiResponse)

\* the Insert at Cursor button: the edit, the onChange it causes (setCode of
\* the new buffer, a timer), setCode(aiResponse), and the render after it
handleInsertAtCursor(maxPending) ==
    /\ InsertShown
    /\ Truthy(aiResponse)
    /\ monacoReady
    /\ Len(timers) + Len(sugReqs) < maxPending
    /\ timers' = TimersAfterChange(timers, InsertedAtCursor, language)
    /\ code' = aiResponse
    /\ buffer' = ValueWrittenBack(InsertedAtCursor, code, aiResponse)
    /\ Len(buffer') <= MaxBufferLen \/ Len(buffer') <= Len(buffer)
    /\ selection' = IF buffer' = InsertedAtCursor /\ selection # NoSelection
                    THEN Caret(selection.from + Len(aiResponse))
                    ELSE Caret(Len(buffer'))
    /\ lastEdit' = [via |-> "insert", before |-> buffer, sel |-> selection,
                    text |-> aiResponse]
    /\ UNCHANGED <<language, suggestions, error, loading, aiResponse, aiLoading,
                   aiAction, isQuotaError, isConfigError, monacoReady,
                   sugReqs, aiReqs, lastOutcome, lastSugError, lastReply, lastOvertaken, lastAiError,
                   lastAiReply, aiCalls>>

\* the Append to Editor button: setCode(aiResponse), then with a model the
\* edit of the full range and the onChange it causes (setCode again, a timer)
handleApplyAiResponse(maxPending) ==
    /\ AppendShown
    /\ Truthy(aiResponse)
    /\ code' = aiResponse
    /\ IF monacoReady
       THEN /\ Len(timers) + Len(sugReqs) < maxPending
            /\ buffer' = ReplaceRange(buffer, [from |-> 0, to |-> Len(buffer)], aiResponse)
            /\ selection' = Caret(Len(aiResponse))
            /\ timers' = TimersAfterChange(timers, aiResponse, language)
            /\ lastEdit' = [via |-> "append", before |-> buffer, sel |-> selection,
                            text |-> aiResponse]
       ELSE UNCHANGED <<buffer, selection, timers, lastEdit>>
    /\ UNCHANGED <<language, suggestions, error, loading, aiResponse, aiLoading,
                   aiAction, isQuotaError, isConfigError, monacoReady,
                   sugReqs, aiReqs, lastOutcome, lastSugError, lastReply, lastOvertaken, lastAiError,
                   lastAiReply, aiCalls>>

\* the user selects a range of the buffer, or puts the caret somewhere
Select(from, to) ==
    /\ monacoReady
    /\ from \in SelOffsets(buffer)
    /\ to \in SelOffsets(buffer)
    /\ from <= to
    /\ selection # [from |-> from, to |-> to]
    /\ selection' = [from |-> from, to |-> to]
    /\ UNCHANGED <<reactState, monacoReady, buffer, timers, sugReqs, aiReqs,
                   lastOutcome, lastSugError, lastReply, lastOvertaken, lastAiError, lastEdit,
                   lastAiReply, aiCalls>>

\* getSelection() of the first editor answers null or undefined: the editor
\* reports no selection
Deselect ==
    /\ monacoReady
    /\ selection # NoSelection
    /\ selection' = NoSelection
    /\ UNCHANGED <<reactState, monacoReady, buffer, timers, sugReqs, aiReqs,
                   lastOutcome, lastSugError, lastReply, lastOvertaken, lastAiError, lastEdit,
                   lastAiReply, aiCalls>>

\* onChange of the language Select
setLanguage(lang) ==
    /\ lang \in Languages
    /\ lang # language
    /\ language' = lang
    /\ UNCHANGED <<code, suggestions, error, loading, aiResponse, aiLoading,
                   aiAction, isQuotaError, isConfigError, monacoReady, buffer,
                   selection, timers, sugReqs, aiReqs, lastOutcome, lastSugError, lastReply,
                   lastOvertaken, lastAiError, lastEdit,
                   lastAiReply, aiCalls>>

\* onClose of the Snackbar and of its Alert: dismissal or the 6 s auto-hide
SnackbarClose ==
    /\ SnackbarOpen
    /\ error' = Null
    /\ UNCHANGED <<code, language, suggestions, loading, aiResponse, aiLoading,
                   aiAction, isQuotaError, isConfigError, monacoReady, buffer,
                   selection, timers, sugReqs, aiReqs, lastOutcome, lastSugError, lastReply,
                   lastOvertaken, lastAiError, lastEdit,
                   lastAiReply, aiCalls>>

(***************************************************************************)
(* The specification                                                       *)
(***************************************************************************)
Init ==
    /\ code = InitialCode
    /\ language = "python"
    /\ suggestions = <<>>
    /\ error = Null
    /\ loading = FALSE
    /\ aiResponse = Null
    /\ aiLoading = FALSE
    /\ aiAction = Null
    /\ isQuotaError = FALSE
    /\ isConfigError = FALSE
    /\ monacoReady = FALSE
    /\ buffer = ""
    /\ selection = NoSelection
    /\ timers = <<>>
    /\ sugReqs = <<>>
    /\ aiReqs = <<>>
    /\ lastOutcome = "none"
    /\ lastSugError = NoError
    /\ lastReply = <<>>
    /\ lastOvertaken = FALSE
    /\ lastAiError = NoError
    /\ lastEdit = NoEdit
    /\ lastAiReply = NoReply
    /\ aiCalls = 0

\* one step of the editor and of the suggestion fetcher, for the inputs the
\* user and the network are allowed: values typed, failures of
\* POST /api/complete, and the number of timers and suggestion requests that
\* may be pending together
FetcherStep(values, sugErrors, maxPending) ==
    \/ EditorMount
    \/ \E value \in values : handleEditorChange(value, maxPending)
    \/ Tick
    \/ getSuggestionsStart
    \/ \E i \in DOMAIN sugReqs : \E body \in SuggestionBodies(sugReqs[i].code) :
           getSuggestionsResolved(i, body)
    \/ \E i \in DOMAIN sugReqs : \E err \in sugErrors : getSuggestionsRejected(i, err)
    \/ SnackbarClose

\* a pick in the language menu, among the languages the user is allowed
MenuStep(langs) == \E lang \in langs : setLanguage(lang)

\* one step of the AI actions, for the failures and replies of
\* POST /api/ai/completion
ActionStep(aiErrors, aiReplies) ==
    \/ handleCompleteCode
    \/ handleDocumentCode
    \/ handleExplainCode
    \/ handleCleanCode
    \/ \E i \in DOMAIN aiReqs : \E reply \in aiReplies : aiResolved(i, reply)
    \/ \E i \in DOMAIN aiReqs : \E err \in aiErrors : aiRejected(i, err)

\* a click on one of the suggestion cards, within the number of timers and
\* suggestion requests that may be pending together
ClickStep(maxPending) ==
    \E k \in DOMAIN suggestions : handleSuggestionClick(k, maxPending)

\* one step of the two insertion buttons of the AI Response panel, within
\* the same number
InsertStep(maxPending) ==
    \/ handleInsertAtCursor(maxPending)
    \/ handleApplyAiResponse(maxPending)

NextOver(values, aiErrors, aiReplies, sugErrors, maxPending) ==
    \/ FetcherStep(values, sugErrors, maxPending)
    \/ ActionStep(aiErrors, aiReplies)
    \/ ClickStep(maxPending)
    \/ InsertStep(maxPending)

\* the AI actions in full, with one suggestion fetch at a time beside them,
\* the insertion buttons and the suggestion cards; of the failures of a call,
\* one that blocks and one that does not. The language stays the one selected
\* at the start: the timers and the requests copy it and nothing else reads
\* it, and the menu is a step of SpecSuggest, SpecClassify and SpecInsert.
Next ==
    NextOver({"abcd"}, {QuotaError, StatusError("Model overloaded")}, AiReplies,
             {QuotaError}, MaxPendingBeside)

Spec == Init /\ [][Next]_vars

\* The suggestion fetcher in full, on its own. The AI actions write none of
\* timers, sugReqs, suggestions, loading and the history of the fetches, and
\* the fetcher reads nothing they write. A click on a suggestion card and an
\* insertion of a response reach the fetcher through onChange alone, as the
\* typing of their text does: they are steps of Spec, and here the values
\* typed stand for them.
NextSuggest ==
    \/ FetcherStep(EditValues, SuggestionErrors, MaxPending)
    \/ MenuStep({"javascript"})

SpecSuggest == Init /\ [][NextSuggest]_vars

\* error texts around the four keywords of getCompletion: every subset of
\* them, their spellings in another case, and the prefixes the handlers look for
KeywordTexts ==
    {"e:" \o q \o b \o k \o p :
        q \in {"", " quota"}, b \in {"", " billing"},
        k \in {"", " API key"}, p \in {"", " proxies"}}

NearMissTexts ==
    {"Quota BILLING api key Proxies", "API Key missing", "proxy refused",
     "upstream said: AI API Key Error", "Server Configuration Error",
     "AI Configuration Error: proxy",
     "API key rejected: Server Configuration Error"}

\* the texts of the two failures of AiErrors that carry a keyword
ScenarioTexts ==
    {"You exceeded your current quota, check billing", "proxies argument not supported"}

ClassifyErrors ==
    {StatusError(t) : t \in KeywordTexts \cup NearMissTexts \cup ScenarioTexts}
    \cup AiErrors
    \cup {StatusError(Null), StatusError(""), EmptyBodyError, NullBodyError,
          ConnRefusedError, SetupError}

\* The AI actions on their own, against every failure of ClassifyErrors,
\* with the language menu and the Snackbar. Nothing is typed and no response
\* is inserted, so no timer runs, no suggestion is fetched and no suggestion
\* card is shown: typing, the insertion buttons and the fetcher are Spec's
\* part. They write none of the variables the four handlers write except
\* error, and of what they write the handlers read code, which is never
\* empty, and Clean the buffer and its selection.
NextClassify ==
    \/ EditorMount
    \/ ActionStep(ClassifyErrors, {[response |-> "x", provider |-> Null]})
    \/ MenuStep({"javascript"})
    \/ SnackbarClose

SpecClassify == Init /\ [][NextClassify]_vars

\* the call in flight settles: axios resolves it, rejects it, or gives it up
\* after the 10 s of axios.defaults.timeout
AiCallSettles ==
    \E i \in DOMAIN aiReqs :
        \/ \E reply \in {[response |-> "x", provider |-> Null]} : aiResolved(i, reply)
        \/ \E err \in ClassifyErrors : aiRejected(i, err)

\* the AI actions on their own, with every call settling in the end
SpecLive == Init /\ [][NextClassify]_vars /\ WF_vars(AiCallSettles)

\* one step of the user in the editor: what getSelection() will answer
EditorStep ==
    \/ \E from \in SelOffsets(buffer) : \E to \in SelOffsets(buffer) : Select(from, to)
    \/ Deselect

\* the reply the insertions are checked with: a text and a provider name
InsertReplies == {[response |-> "x", provider |-> "g"]}

\* The editor beside the AI actions: the buffer is emptied, ranges of it are
\* selected, the response of each action is inserted, and the suggestions for
\* the buffer an insertion left are fetched and shown. Nothing is typed but
\* the empty text, and no suggestion card is clicked: a click replaces the
\* whole buffer whatever is selected, and is a step of Spec.
NextInsert ==
    \/ FetcherStep({""}, {QuotaError}, MaxPendingBeside)
    \/ MenuStep({"javascript"})
    \/ EditorStep
    \/ ActionStep({TimeoutError}, InsertReplies)
    \/ InsertStep(MaxPendingBeside)

SpecInsert == Init /\ [][NextInsert]_vars

(***************************************************************************)
(* Properties                                                              *)
(***************************************************************************)
\* C1: no suggestion request is issued for an edit that was followed by
\* another edit within the debounce delay: a burst of edits issues one
\* request, for its last edit.
C1_OneRequestPerBurst == \A k \in DOMAIN sugReqs : ~sugReqs[k].superseded

Blocked == isQuotaError \/ isConfigError

\* C2: from a state in which isQuotaError or isConfigError is set, no step
\* clears or changes the flags, starts an AI request or changes the state of
\* the AI action.
C2_BlockedStaysBlocked ==
    [][Blocked =>
          /\ aiReqs = <<>> /\ aiReqs' = <<>>
          /\ isQuotaError' = isQuotaError
          /\ isConfigError' = isConfigError
          /\ aiLoading' = aiLoading
          /\ aiAction' = aiAction
          /\ aiResponse' = aiResponse]_vars

\* a suggestion fetch runs while nothing but a flag disables the four buttons
C2_Witness == Blocked /\ ~aiLoading /\ code # "" /\ loading /\ sugReqs # <<>>

\* C3: at most one AI request is in flight, and aiLoading is true exactly
\* while one is.
C3_OneAiRequestInFlight == Len(aiReqs) <= 1 /\ (aiLoading <=> aiReqs # <<>>)

\* a request is in flight and only aiLoading disables the four buttons
C3_Witness == Len(aiReqs) = 1 /\ aiLoading /\ code # "" /\ ~Blocked /\ TriggerDisabled

\* the failure carries a body {error: text} with a non-empty text
HasErrorText(err) == err.hasResponse /\ err.dataKind = "object" /\ Truthy(err.dataError)

\* the quota set of the claims
QuotaSet(text) ==
    includes(text, "quota") \/ includes(text, "billing") \/ includes(text, "API key")

\* C4: an AI action that failed with an error text containing "quota",
\* "billing" or "API key" has isQuotaError set and isConfigError clear,
\* whether or not the text also contains "proxies".
C4_QuotaOrKeyError ==
    (HasErrorText(lastAiError) /\ QuotaSet(lastAiError.dataError))
        => (isQuotaError /\ ~isConfigError)

\* Clean failed with a text that contains "API key" and "proxies"
C4_Witness ==
    /\ HasErrorText(lastAiError)
    /\ includes(lastAiError.dataError, "API key")
    /\ includes(lastAiError.dataError, "proxies")
    /\ aiAction = "remove"
    /\ isQuotaError /\ ~isConfigError

\* C5: an AI action that failed with an error text containing "proxies" and
\* nothing of the quota set has isConfigError set and isQuotaError clear, and
\* the four buttons are disabled.
C5_ConfigurationError ==
    (HasErrorText(lastAiError) /\ includes(lastAiError.dataError, "proxies")
        /\ ~QuotaSet(lastAiError.dataError))
        => (isConfigError /\ ~isQuotaError /\ TriggerDisabled)

\* Document failed with the text of the scenario
C5_Witness ==
    /\ lastAiError = ProxiesError
    /\ aiAction = "document"
    /\ isConfigError /\ ~isQuotaError /\ ~aiLoading

\* C6: an AI action that failed with an error text containing none of the
\* four keywords sets neither flag, and the message it records contains the
\* text unchanged.
C6_GenericError ==
    (HasErrorText(lastAiError) /\ ~QuotaSet(lastAiError.dataError)
        /\ ~includes(lastAiError.dataError, "proxies"))
        => /\ ~isQuotaError /\ ~isConfigError
           /\ includes(ErrorShown(aiAction, getCompletionThrows(lastAiError)),
                       lastAiError.dataError)

\* the handlers took their else branch for the failure
GenericFailure(err) == err # NoError /\ ErrorBranch(getCompletionThrows(err)) = "generic"

\* C7: the step in which an AI action fails with a generic error ends with
\* aiLoading false, the four buttons enabled, and the error set with neither
\* flag; the buttons stay enabled for as long as that failure is the last.
C7_GenericDoesNotBlock ==
    /\ [](GenericFailure(lastAiError) =>
              ~aiLoading /\ ~TriggerDisabled /\ ~isQuotaError /\ ~isConfigError)
    /\ [][(lastAiError' # lastAiError /\ GenericFailure(lastAiError')) =>
              (error' # Null /\ error' # "" /\ ~isQuotaError' /\ ~isConfigError')]_vars

\* the Snackbar shows the backend's text after a failed action
C7_Witness ==
    /\ GenericFailure(lastAiError)
    /\ SnackbarOpen
    /\ includes(error, "Model overloaded")
    /\ ~TriggerDisabled

\* C8: the step in which a suggestion fetch fails ends with the suggestion
\* list empty and the Snackbar open.
C8_FailureSurfaced ==
    [][(Len(sugReqs') < Len(sugReqs) /\ lastOutcome' # "ok") =>
          (suggestions' = <<>> /\ SnackbarOpen')]_vars

\* C9: no step of getSuggestions (its start, a reply, a failure) changes
\* isQuotaError, isConfigError, aiLoading, aiAction or aiResponse.
C9_FetchLeavesActionState ==
    [][Len(sugReqs') # Len(sugReqs) =>
          UNCHANGED <<isQuotaError, isConfigError, aiLoading, aiAction, aiResponse>>]_vars

\* a fetch failed with a quota text and no flag is set
C9_Witness ==
    /\ lastOutcome = "failed"
    /\ error = "Server error: You exceeded your current quota, check billing"
    /\ ~isQuotaError /\ ~isConfigError

\* C10: the list shown is the one of the reply that resolved last, whichever
\* request it answers.
C10_LastResolvedWins == lastOutcome = "ok" => suggestions = lastReply

\* the list of the request for "a" is shown although the reply to the later
\* request for "ab" was applied before it
C10_Witness ==
    /\ lastOutcome = "ok"
    /\ lastOvertaken
    /\ code = "ab"
    /\ Len(suggestions) = 1
    /\ suggestions[1].completion = "a()"

\* C11: every trigger of an AI action makes exactly one call to
\* /api/ai/completion: once an action was triggered, one call has been made
\* for the latest trigger, whether it is still in flight, succeeded or failed.
C11_OneCallPerTrigger == aiAction # Null => (aiCalls = 1 /\ Len(aiReqs) <= 1)

\* C12: the request a trigger of Complete, Document or Explain sends carries
\* the kind and the temperature of its entry point (in tenths: 3, 5, 7), its
\* language is the selected language and its system prompt contains it.
C12_RequestPerEntryPoint ==
    [][Len(aiReqs') > Len(aiReqs) =>
          LET sent == aiReqs'[Len(aiReqs')]
          IN  /\ sent.request.language = language
              /\ includes(sent.request.system_prompt, language)
              /\ sent.action = "complete" =>
                     (sent.request.request_type = "completion" /\ sent.request.temperature = 3)
              /\ sent.action = "document" =>
                     (sent.request.request_type = "documentation" /\ sent.request.temperature = 5)
              /\ sent.action = "explain" =>
                     (sent.request.request_type = "explanation" /\ sent.request.temperature = 7)]_vars

\* Explain is in flight for the language picked in the menu
C12_Witness ==
    /\ Len(aiReqs) = 1
    /\ aiReqs[1].action = "explain"
    /\ language = "javascript"
    /\ aiReqs[1].request.language = "javascript"
    /\ aiReqs[1].request.temperature = 7
    /\ includes(aiReqs[1].request.system_prompt, "javascript")

\* the instruction Clean puts in front of the text
CleanInstruction ==
    "Please help me remove unnecessary code while keeping the core functionality:\n\n"

\* the user has selected a part of the buffer: the editor reports a
\* selection that is not collapsed to the caret
SelectionExists(sel) == sel # NoSelection /\ sel.from < sel.to

\* C13: the request a trigger of Clean sends has the kind completion and the
\* temperature 0.3 (3 tenths), and its prompt is the clean-up instruction
\* followed by the selected text when a selection exists, and by the full
\* text of the buffer otherwise.
C13_CleanRequest ==
    [][(Len(aiReqs') > Len(aiReqs) /\ aiReqs'[Len(aiReqs')].action = "remove") =>
          LET sent == aiReqs'[Len(aiReqs')].request
          IN  /\ sent.request_type = "completion"
              /\ sent.temperature = 3
              /\ sent.prompt =
                     CleanInstruction \o
                         (IF SelectionExists(selection)
                          THEN SubSeq(buffer, selection.from + 1, selection.to)
                          ELSE buffer)]_vars

\* the reply names a provider
ProviderDeclared(reply) == reply.provider # Null /\ reply.provider # ""

\* C14: after an AI action succeeded, the stored response is the reply's
\* text followed by a suffix naming the provider when the reply names one,
\* and the reply's text exactly when it names none.
C14_ProviderSuffix ==
    (lastAiReply # NoReply /\ aiResponse # Null) =>
        LET text == lastAiReply.response
            rest == SubSeq(aiResponse, Len(text) + 1, Len(aiResponse))
        IN  /\ SubSeq(aiResponse, 1, Len(text)) = text
            /\ ProviderDeclared(lastAiReply) =>
                   (rest # "" /\ includes(rest, lastAiReply.provider))
            /\ ~ProviderDeclared(lastAiReply) => rest = ""

\* Document succeeded with a reply of provider g
C14_Witness ==
    /\ lastAiReply = [action |-> "document", response |-> "x", provider |-> "g"]
    /\ aiResponse = "x\n\n (via g)"
    /\ ~aiLoading

\* C15: the step in which the AI action in flight succeeds ends with
\* aiAction the kind of that action, the response stored, the error message
\* null and both flags false, whatever happened while it was in flight.
C15_SucceededIsClean ==
    [][(Len(aiReqs') < Len(aiReqs) /\ lastAiReply' # NoReply) =>
          /\ aiAction' = aiReqs[1].action
          /\ aiResponse' # Null
          /\ ~aiLoading'
          /\ error' = Null
          /\ ~isQuotaError' /\ ~isConfigError']_vars

\* the message is one the four handlers set for a failed AI action
IsAiActionError(message) ==
    \/ message \in {QuotaMessage, ConfigMessage}
    \/ \E action \in {"complete", "document", "explain", "remove"} :
           includes(message, ErrorPrefix(action))

\* C16: only the outcome of the latest AI action is kept. While an action is
\* in flight the response is null and no error of an AI action is recorded;
\* after it failed no response remains and an AI-action error shown is the
\* one of that failure; after it succeeded the response is the one of its
\* reply and aiAction is its kind.
C16_OnlyLatestRetained ==
    /\ aiReqs # <<>> =>
           /\ aiResponse = Null
           /\ ~isQuotaError /\ ~isConfigError
           /\ ~IsAiActionError(error)
    /\ lastAiError # NoError =>
           /\ aiResponse = Null
           /\ IsAiActionError(error) =>
                  error = ErrorShown(aiAction, getCompletionThrows(lastAiError))
    /\ aiResponse # Null =>
           /\ lastAiReply.action = aiAction
           /\ SubSeq(aiResponse, 1, Len(lastAiReply.response)) = lastAiReply.response
           /\ ~IsAiActionError(error)

\* Explain is in flight after the response of an earlier action was inserted
C16_Witness ==
    /\ Len(aiReqs) = 1
    /\ aiAction = "explain"
    /\ aiResponse = Null
    /\ lastEdit.via = "insert"
    /\ lastEdit.text = "x\n\n (via g)"
    /\ code = "x\n\n (via g)"

\* the last AI action succeeded and none is in flight
Succeeded == lastAiReply # NoReply /\ aiReqs = <<>>

\* C17: after Complete or Document succeeded both insertion buttons are
\* there, after Clean only the insert button, after Explain none; in every
\* other state (nothing triggered yet, in flight, failed) there is none.
C17_InsertionAffordances ==
    /\ (Succeeded /\ aiAction \in {"complete", "document"}) => (AppendShown /\ InsertShown)
    /\ (Succeeded /\ aiAction = "remove") => (~AppendShown /\ InsertShown)
    /\ (Succeeded /\ aiAction = "explain") => (~AppendShown /\ ~InsertShown)
    /\ ~Succeeded => (~AppendShown /\ ~InsertShown)

\* the text with the part between two offsets replaced
Spliced(text, from, to, new) ==
    SubSeq(text, 1, from) \o new \o SubSeq(text, to + 1, Len(text))

\* C18: after insert-at-cursor the buffer is, when a selection existed, the
\* buffer of before with the selected part replaced by the AI response and
\* the text before and after it kept, and, when none existed, the AI
\* response alone (lastEdit.text is the response inserted).
C18_InsertAtCursor ==
    lastEdit.via = "insert" =>
        buffer = IF SelectionExists(lastEdit.sel)
                 THEN Spliced(lastEdit.before, lastEdit.sel.from, lastEdit.sel.to,
                              lastEdit.text)
                 ELSE lastEdit.text

\* C19: after an insertion through either button the buffer is the buffer of
\* before with the selection replaced by the AI response when a selection
\* existed, and the AI response alone only when none existed.
C19_InsertionPrefersSelection ==
    lastEdit.via \in {"insert", "append"} =>
        buffer = IF SelectionExists(lastEdit.sel)
                 THEN Spliced(lastEdit.before, lastEdit.sel.from, lastEdit.sel.to,
                              lastEdit.text)
                 ELSE lastEdit.text

\* C20: once the editor is there, the code state equals the text of the
\* buffer after every step: after every change of the editor, the one that
\* empties it included, and after every insertion of an AI response.
C20_CodeMirrorsBuffer == monacoReady => code = buffer

\* C21: an AI action whose call is in flight leaves that state: if the call
\* settles, a state follows in which aiLoading is false, aiAction is still
\* the kind of that action, and either its response is stored or an error
\* message is set, whatever the outcome of the call was.
C21_LeavesInFlight ==
    \A kind \in {"complete", "document", "explain", "remove"} :
        (aiReqs # <<>> /\ aiLoading /\ aiAction = kind)
            ~> (/\ ~aiLoading /\ aiReqs = <<>> /\ aiAction = kind
                /\ \/ (lastAiReply # NoReply /\ aiResponse # Null)
                   \/ (lastAiError # NoError /\ Truthy(error)))

\* Explain failed before any request was sent: no response, no body, no message
C21_Witness ==
    /\ lastAiError = SetupError
    /\ aiAction = "explain"
    /\ ~aiLoading
    /\ aiResponse = Null
    /\ error = "Failed to explain code with AI: Please try again later."

\* the message of the transport outcome a failure falls in, by the precedence
\* of the claim: connection refused, server error, no response, unknown
TransportOutcomeMessage(err) ==
    IF err.code = "ECONNREFUSED"
    THEN "Cannot connect to the backend server. Please make sure it is running."
    ELSE IF err.hasResponse
    THEN "Server error: " \o (IF err.dataError # Null /\ err.dataError # ""
                              THEN err.dataError ELSE err.statusText)
    ELSE IF err.hasRequest
    THEN "No response from server. Please check your connection."
    ELSE "Failed to fetch code suggestions. Please try again."

\* C22: the step in which a suggestion request fails sets the message of
\* exactly the transport outcome the failure falls in.
C22_TransportClassification ==
    [][(Len(sugReqs') < Len(sugReqs) /\ lastOutcome' # "ok") =>
          error' = TransportOutcomeMessage(lastSugError')]_vars

\* C23: isQuotaError and isConfigError are never both true.
C23_FlagsExclusive == ~(isQuotaError /\ isConfigError)

\* Clean failed with a message that contains both phrases the handlers look for
C23_Witness ==
    /\ lastAiError = StatusError("API key rejected: Server Configuration Error")
    /\ includes(getCompletionThrows(lastAiError), "AI API Key Error")
    /\ includes(getCompletionThrows(lastAiError), "Configuration Error")
    /\ aiAction = "remove"
    /\ isQuotaError /\ ~isConfigError

\* C24: loading is true exactly while a suggestion request is in flight.
C24_LoadingAccurate == loading <=> sugReqs # <<>>

\* the message is one getSuggestions sets for a failed fetch
IsFetchError(message) ==
    \/ message \in {DefaultSuggestionError, ConnRefusedMessage, NoResponseMessage}
    \/ includes(message, "Server error: ")

\* C25: a step that starts or ends a suggestion fetch leaves the message of
\* a failed AI action as it is, and a step that triggers an AI action leaves
\* the message of a failed suggestion fetch as it is.
C25_ErrorsKeptApart ==
    [][/\ (Len(sugReqs') # Len(sugReqs) /\ IsAiActionError(error)) => error' = error
       /\ (Len(aiReqs') > Len(aiReqs) /\ IsFetchError(error)) => error' = error]_vars

\* the text an AI request was built around is not empty: its prompt is
\* longer than what the entry point, or Clean, puts in front of the text
CarriesText(req) ==
    CASE req.action = "complete" -> req.request.prompt # ""
      [] req.action = "document" ->
             req.request.prompt #
                 "Generate documentation for the following " \o req.request.language
                     \o " code:\n\n"
      [] req.action = "explain" ->
             req.request.prompt #
                 "Explain this " \o req.request.language \o " code in simple terms:\n\n"
      [] req.action = "remove" -> req.request.prompt # CleanInstruction

\* C26: the code state is never empty, so the buttons are never disabled
\* for want of code, and every timer, suggestion request and AI request
\* carries a text that is not empty.
C26_CodeNeverEmpty ==
    /\ code # "" /\ code # Null
    /\ \A k \in DOMAIN timers : timers[k].value # ""
    /\ \A k \in DOMAIN sugReqs : sugReqs[k].code # ""
    /\ \A k \in DOMAIN aiReqs : CarriesText(aiReqs[k])

====
